---- MODULE Spec2Model ----
\* Intent recognition and dispatch of the Atlas AI assistant backend:
\*   backend/services/intent_recognition.py  (IntentRecognizer)
\*   backend/services/assistant_service.py   (AssistantService)
\* Texts are strings; the regular expressions of the pattern catalog and of the
\* entity extractors are matched by a backtracking matcher with Python's
\* priorities (leftmost start, alternatives in order, greedy repetition).
EXTENDS Integers, Sequences, FiniteSets, TLC

\* ------------------------------------------------------------------------
\* Python values
\* ------------------------------------------------------------------------

\* Python's None in an Optional[str] position. "<" and ">" occur in no text,
\* action, message or entity of the model.
None == "<None>"

\* str.lower() on the ASCII letters.
LowerMap ==
  [A |-> "a", B |-> "b", C |-> "c", D |-> "d", E |-> "e", F |-> "f", G |-> "g",
   H |-> "h", I |-> "i", J |-> "j", K |-> "k", L |-> "l", M |-> "m", N |-> "n",
   O |-> "o", P |-> "p", Q |-> "q", R |-> "r", S |-> "s", T |-> "t", U |-> "u",
   V |-> "v", W |-> "w", X |-> "x", Y |-> "y", Z |-> "z"]

UpperLetters == DOMAIN LowerMap

LowerLetters == {LowerMap[c] : c \in UpperLetters}

Digits == {"0", "1", "2", "3", "4", "5", "6", "7", "8", "9"}

\* The characters \s matches and str.strip() removes.
Whitespace == {" ", "\t", "\n", "\r", "\f"}

LowerChar(c) == IF c \in UpperLetters THEN LowerMap[c] ELSE c

RECURSIVE Lower(_)
Lower(s) == IF s = "" THEN "" ELSE LowerChar(SubSeq(s, 1, 1)) \o Lower(Tail(s))

RECURSIVE LStrip(_)
LStrip(s) == IF s # "" /\ SubSeq(s, 1, 1) \in Whitespace THEN LStrip(Tail(s)) ELSE s

RECURSIVE RStrip(_)
RStrip(s) ==
  IF s # "" /\ SubSeq(s, Len(s), Len(s)) \in Whitespace
  THEN RStrip(SubSeq(s, 1, Len(s) - 1))
  ELSE s

Strip(s) == RStrip(LStrip(s))

\* Python's `sub in s`.
Contains(s, sub) ==
  \E i \in 1..(Len(s) - Len(sub) + 1) : SubSeq(s, i, i + Len(sub) - 1) = sub

\* any(w in s for w in ws)
ContainsAny(s, ws) == \E j \in DOMAIN ws : Contains(s, ws[j])

\* ------------------------------------------------------------------------
\* Floats of the scorer, kept exact as reduced fractions <<numerator, denominator>>
\* ------------------------------------------------------------------------

RECURSIVE GCD(_, _)
GCD(a, b) == IF b = 0 THEN a ELSE GCD(b, a % b)

Frac(n, d) == LET g == GCD(n, d) IN <<n \div g, d \div g>>

FAdd(x, y) == Frac(x[1] * y[2] + y[1] * x[2], x[2] * y[2])

FMul(x, y) == Frac(x[1] * y[1], x[2] * y[2])

FLt(x, y) == x[1] * y[2] < y[1] * x[2]

FLe(x, y) == x[1] * y[2] <= y[1] * x[2]

FMin(x, y) == IF FLt(y, x) THEN y ELSE x

\* ------------------------------------------------------------------------
\* Regular expressions (the subset of `re` the two tables use)
\* ------------------------------------------------------------------------

\* No upper limit of a repetition (+ and *).
Unbounded == -1

Lit(s) == [k |-> "lit", s |-> s]

Set(cs) == [k |-> "set", cs |-> cs, neg |-> FALSE]

NotSet(cs) == [k |-> "set", cs |-> cs, neg |-> TRUE]

Alt(rs) == [k |-> "alt", rs |-> rs]

Cat(rs) == [k |-> "cat", rs |-> rs]

Rep(r, lo, hi) == [k |-> "rep", r |-> r, lo |-> lo, hi |-> hi]

Opt(r) == Rep(r, 0, 1)

Plus(r) == Rep(r, 1, Unbounded)

Star(r) == Rep(r, 0, Unbounded)

\* (?:a|b|c) over literal words
Words(ss) == [k |-> "words", ss |-> ss]

\* \s+ , \s* , \d
WS1 == Plus(Set(Whitespace))

WS0 == Star(Set(Whitespace))

Digit == Set(Digits)

\* re.IGNORECASE: matching a pattern without regard to case is matching the
\* pattern with its literals and classes lower-cased against the lower-cased
\* text; positions are unchanged.
RECURSIVE FoldCase(_)
FoldCase(r) ==
  CASE r.k = "lit" -> Lit(Lower(r.s))
    [] r.k = "set" -> [k |-> "set", cs |-> {LowerChar(c) : c \in r.cs}, neg |-> r.neg]
    [] r.k = "words" -> Words([j \in DOMAIN r.ss |-> Lower(r.ss[j])])
    [] r.k = "alt" -> Alt([j \in DOMAIN r.rs |-> FoldCase(r.rs[j])])
    [] r.k = "cat" -> Cat([j \in DOMAIN r.rs |-> FoldCase(r.rs[j])])
    [] r.k = "rep" -> Rep(FoldCase(r.r), r.lo, r.hi)

LitAt(s, t, i) ==
  /\ i + Len(s) - 1 <= Len(t)
  /\ SubSeq(t, i, i + Len(s) - 1) = s

\* The concatenation of a sequence of sequences.
RECURSIVE Flatten(_)
Flatten(ss) ==
  IF ss = <<>> THEN <<>>
  ELSE IF Len(ss) = 1 THEN ss[1]
  ELSE Head(ss) \o Flatten(Tail(ss))

\* Ends(r, t, i): the positions (1-based index of the next character) at
\* which a match of r starting at position i of t can end, in the order the
\* backtracking matcher tries them; the first one is the match re reports.
RECURSIVE Ends(_, _, _)
RECURSIVE CatEnds(_, _, _, _)
RECURSIVE RepEnds(_, _, _, _, _)

Ends(r, t, i) ==
  CASE r.k = "lit" -> IF LitAt(r.s, t, i) THEN <<i + Len(r.s)>> ELSE <<>>
    [] r.k = "set" -> IF i <= Len(t) /\ ((SubSeq(t, i, i) \in r.cs) # r.neg)
                      THEN <<i + 1>> ELSE <<>>
    [] r.k = "words" -> LET hits == SelectSeq(r.ss, LAMBDA w : LitAt(w, t, i))
                        IN  [n \in DOMAIN hits |-> i + Len(hits[n])]
    [] r.k = "alt" -> Flatten([j \in DOMAIN r.rs |-> Ends(r.rs[j], t, i)])
    [] r.k = "cat" -> CatEnds(r.rs, 1, t, i)
    [] r.k = "rep" -> RepEnds(r.r, r.lo, r.hi, t, i)

CatEnds(rs, j, t, i) ==
  IF j > Len(rs) THEN <<i>>
  ELSE LET es == Ends(rs[j], t, i)
       IN  IF es = <<>> THEN <<>>
           ELSE Flatten([n \in DOMAIN es |-> CatEnds(rs, j + 1, t, es[n])])

\* Greedy: one more repetition is tried before stopping here.
RepEnds(r, lo, hi, t, i) ==
  LET es   == IF hi = 0 THEN <<>> ELSE Ends(r, t, i)
      next == IF hi = Unbounded THEN Unbounded ELSE hi - 1
      more == Flatten([n \in DOMAIN es |->
                         IF es[n] > i
                         THEN RepEnds(r, IF lo > 0 THEN lo - 1 ELSE 0, next, t, es[n])
                         ELSE <<>>])
  IN  more \o (IF lo <= 0 THEN <<i>> ELSE <<>>)

NoMatch == [found |-> FALSE, start |-> 0, end |-> 0]

\* The leftmost start at or after position `from` that matches, with the first
\* end the matcher finds there. start/end are Python's 0-based match.start()
\* and match.end().
RECURSIVE SearchFrom(_, _, _)
SearchFrom(r, t, from) ==
  IF from > Len(t) + 1 THEN NoMatch
  ELSE LET es == Ends(r, t, from)
       IN  IF es # <<>>
           THEN [found |-> TRUE, start |-> from - 1, end |-> es[1] - 1]
           ELSE SearchFrom(r, t, from + 1)

\* re.search(pattern, t)
Search(r, t) == SearchFrom(r, t, 1)

\* match.group(0)
Group0(t, m) == SubSeq(t, m.start + 1, m.end)

\* The successive non-overlapping matches, left to right.
RECURSIVE FindIterFrom(_, _, _)
FindIterFrom(r, t, from) ==
  LET m == SearchFrom(r, t, from)
  IN  IF ~m.found THEN <<>>
      ELSE <<m>> \o FindIterFrom(r, t, (IF m.end > m.start THEN m.end ELSE m.start + 1) + 1)

\* ------------------------------------------------------------------------
\* intent_recognition.py
\* ------------------------------------------------------------------------

\* IntentType, by the enum members' values.
CALENDAR == "calendar"

EMAIL == "email"

REMINDER == "reminder"

WEATHER == "weather"

NEWS == "news"

SEARCH == "search"

GENERAL_CHAT == "general_chat"

UNKNOWN == "unknown"

IntentType == <<CALENDAR, EMAIL, REMINDER, WEATHER, NEWS, SEARCH, GENERAL_CHAT, UNKNOWN>>

\* (?:an?\s+)?  and  (?:my|the)
OptArticle == Opt(Cat(<<Lit("a"), Opt(Lit("n")), WS1>>))

MyThe == Words(<<"my", "the">>)

ThisThe == Opt(Alt(<<Cat(<<Lit("this"), WS1>>), Cat(<<Lit("the"), WS1>>)>>))

Meeting == Words(<<"meeting", "appointment", "event">>)

\* [A-Z], [a-z], [A-Z][a-z]+(?:\s+[A-Z][a-z]+)* , (?:minutes?|hours?|...)
Upper == Set(UpperLetters)

LowerCls == Set(LowerLetters)

CapWord == Cat(<<Upper, Plus(LowerCls)>>)

CapWords == Cat(<<CapWord, Star(Cat(<<WS1, CapWord>>))>>)

Plural(ss) == Alt([j \in DOMAIN ss |-> Cat(<<Lit(ss[j]), Opt(Lit("s"))>>)])

AmPm == Words(<<"am", "pm">>)

\* ([^,.!?]+)
TopicText == Plus(NotSet({",", ".", "!", "?"}))

\* IntentRecognizer._load_patterns: the dict in insertion order, each intent
\* with its list of pattern groups; the patterns are the source's strings.
_load_patterns ==
  << [intent_type |-> CALENDAR, groups |-> <<
       [patterns |-> <<
          "(?:schedule|create|add|set up|book)\\s+(?:a\\s+)?(?:meeting|appointment|event)",
          "(?:what|when)\\s+(?:is|are)\\s+(?:my|the)\\s+(?:next|upcoming)\\s+(?:meeting|appointment|event)",
          "(?:cancel|delete|remove)\\s+(?:my|the)\\s+(?:meeting|appointment|event)",
          "(?:reschedule|move|change)\\s+(?:my|the)\\s+(?:meeting|appointment|event)",
          "(?:check|show|list)\\s+(?:my|the)\\s+(?:calendar|schedule|appointments)" >>,
        actions |-> <<"create", "read", "update", "delete", "list">>] >>],
     [intent_type |-> EMAIL, groups |-> <<
       [patterns |-> <<
          "(?:send|compose|write)\\s+(?:an?\\s+)?email",
          "(?:check|read|show)\\s+(?:my\\s+)?(?:email|inbox|messages)",
          "(?:reply|respond)\\s+to\\s+(?:the\\s+)?email",
          "(?:forward|share)\\s+(?:this\\s+|the\\s+)?email",
          "(?:delete|remove)\\s+(?:this\\s+|the\\s+)?email" >>,
        actions |-> <<"send", "read", "reply", "forward", "delete">>] >>],
     [intent_type |-> REMINDER, groups |-> <<
       [patterns |-> <<
          "(?:remind|alert)\\s+me\\s+(?:to|about)",
          "(?:set|create|add)\\s+(?:a\\s+)?(?:reminder|alert|notification)",
          "(?:don't\\s+forget|remember)\\s+to",
          "(?:what|show)\\s+(?:are\\s+)?(?:my\\s+)?(?:reminders|alerts|tasks)",
          "(?:cancel|delete|remove)\\s+(?:the\\s+)?(?:reminder|alert)" >>,
        actions |-> <<"create", "read", "update", "delete", "list">>] >>],
     [intent_type |-> WEATHER, groups |-> <<
       [patterns |-> <<
          "(?:what|how)\\s+(?:is|will)\\s+(?:the\\s+)?weather",
          "(?:weather\\s+)?(?:forecast|report|conditions)",
          "(?:is\\s+it|will\\s+it)\\s+(?:rain|snow|sunny|cloudy)",
          "(?:temperature|temp)\\s+(?:today|tomorrow|outside)",
          "(?:should\\s+i|do\\s+i\\s+need)\\s+(?:bring\\s+)?(?:an?\\s+)?(?:umbrella|jacket|coat)" >>,
        actions |-> <<"current", "forecast", "conditions">>] >>],
     [intent_type |-> NEWS, groups |-> <<
       [patterns |-> <<
          "(?:what|show)\\s+(?:is|are)\\s+(?:the\\s+)?(?:latest\\s+)?news",
          "(?:news|headlines|updates)\\s+(?:about|on|for)",
          "(?:what|anything)\\s+(?:new|happening)\\s+(?:in|about|with)",
          "(?:current\\s+)?(?:events|affairs|happenings)",
          "(?:breaking|latest)\\s+news" >>,
        actions |-> <<"headlines", "search", "category">>] >>],
     [intent_type |-> SEARCH, groups |-> <<
       [patterns |-> <<
          "(?:search|look up|find|google)\\s+(?:for\\s+)?",
          "(?:what|who|where|when|why|how)\\s+(?:is|are|was|were|do|does|did)",
          "(?:tell|show)\\s+me\\s+(?:about|more\\s+about)",
          "(?:information|info|details)\\s+(?:about|on|for)",
          "(?:can\\s+you\\s+)?(?:help\\s+me\\s+)?(?:find|locate)" >>,
        actions |-> <<"web_search", "information", "lookup">>] >>] >>

\* IntentRecognizer._load_entity_extractors: the dict in insertion order.
_load_entity_extractors ==
  << [entity_type |-> "datetime", patterns |-> <<
        "(?:today|tomorrow|yesterday)",
        "(?:monday|tuesday|wednesday|thursday|friday|saturday|sunday)",
        "(?:january|february|march|april|may|june|july|august|september|october|november|december)",
        "\\d{1,2}:\\d{2}(?:\\s*(?:am|pm))?",
        "\\d{1,2}/\\d{1,2}(?:/\\d{2,4})?",
        "(?:in\\s+)?\\d+\\s+(?:minutes?|hours?|days?|weeks?|months?)",
        "(?:next|this)\\s+(?:week|month|year)",
        "(?:at\\s+)?\\d{1,2}(?::\\d{2})?\\s*(?:am|pm)" >>],
     [entity_type |-> "location", patterns |-> <<
        "(?:in|at|near|around)\\s+[A-Z][a-z]+(?:\\s+[A-Z][a-z]+)*",
        "[A-Z][a-z]+,\\s*[A-Z]{2}",
        "\\d+\\s+[A-Za-z\\s]+(?:Street|St|Avenue|Ave|Road|Rd|Boulevard|Blvd)" >>],
     [entity_type |-> "person", patterns |-> <<
        "(?:with|to|from)\\s+[A-Z][a-z]+(?:\\s+[A-Z][a-z]+)*",
        "[A-Z][a-z]+@[a-z]+\\.[a-z]+" >>],
     [entity_type |-> "duration", patterns |-> <<
        "\\d+\\s+(?:minutes?|hours?|days?|weeks?|months?|years?)",
        "(?:for\\s+)?\\d+\\s*(?:min|hr|h|d|w|m|y)",
        "(?:half\\s+an?\\s+|quarter\\s+)?hour" >>],
     [entity_type |-> "topic", patterns |-> <<
        "(?:about|regarding|concerning)\\s+([^,.!?]+)",
        "(?:subject|topic):\\s*([^,.!?]+)" >>] >>

\* What re compiles each pattern string of the two tables to.
Compiled ==
  "(?:schedule|create|add|set up|book)\\s+(?:a\\s+)?(?:meeting|appointment|event)" :>
      Cat(<<Words(<<"schedule", "create", "add", "set up", "book">>), WS1, Opt(Cat(<<Lit("a"),
          WS1>>)), Meeting>>)
  @@
  "(?:what|when)\\s+(?:is|are)\\s+(?:my|the)\\s+(?:next|upcoming)\\s+(?:meeting|appointment|event)" :>
      Cat(<<Words(<<"what", "when">>), WS1, Words(<<"is", "are">>), WS1, MyThe, WS1,
          Words(<<"next", "upcoming">>), WS1, Meeting>>)
  @@
  "(?:cancel|delete|remove)\\s+(?:my|the)\\s+(?:meeting|appointment|event)" :>
      Cat(<<Words(<<"cancel", "delete", "remove">>), WS1, MyThe, WS1, Meeting>>)
  @@
  "(?:reschedule|move|change)\\s+(?:my|the)\\s+(?:meeting|appointment|event)" :>
      Cat(<<Words(<<"reschedule", "move", "change">>), WS1, MyThe, WS1, Meeting>>)
  @@
  "(?:check|show|list)\\s+(?:my|the)\\s+(?:calendar|schedule|appointments)" :>
      Cat(<<Words(<<"check", "show", "list">>), WS1, MyThe, WS1, Words(<<"calendar", "schedule",
          "appointments">>)>>)
  @@
  "(?:send|compose|write)\\s+(?:an?\\s+)?email" :>
      Cat(<<Words(<<"send", "compose", "write">>), WS1, OptArticle, Lit("email")>>)
  @@
  "(?:check|read|show)\\s+(?:my\\s+)?(?:email|inbox|messages)" :>
      Cat(<<Words(<<"check", "read", "show">>), WS1, Opt(Cat(<<Lit("my"), WS1>>)),
          Words(<<"email", "inbox", "messages">>)>>)
  @@
  "(?:reply|respond)\\s+to\\s+(?:the\\s+)?email" :>
      Cat(<<Words(<<"reply", "respond">>), WS1, Lit("to"), WS1, Opt(Cat(<<Lit("the"), WS1>>)),
          Lit("email")>>)
  @@
  "(?:forward|share)\\s+(?:this\\s+|the\\s+)?email" :>
      Cat(<<Words(<<"forward", "share">>), WS1, ThisThe, Lit("email")>>)
  @@
  "(?:delete|remove)\\s+(?:this\\s+|the\\s+)?email" :>
      Cat(<<Words(<<"delete", "remove">>), WS1, ThisThe, Lit("email")>>)
  @@
  "(?:remind|alert)\\s+me\\s+(?:to|about)" :>
      Cat(<<Words(<<"remind", "alert">>), WS1, Lit("me"), WS1, Words(<<"to", "about">>)>>)
  @@
  "(?:set|create|add)\\s+(?:a\\s+)?(?:reminder|alert|notification)" :>
      Cat(<<Words(<<"set", "create", "add">>), WS1, Opt(Cat(<<Lit("a"), WS1>>)),
          Words(<<"reminder", "alert", "notification">>)>>)
  @@
  "(?:don't\\s+forget|remember)\\s+to" :>
      Cat(<<Alt(<<Cat(<<Lit("don't"), WS1, Lit("forget")>>), Lit("remember")>>), WS1, Lit("to")>>)
  @@
  "(?:what|show)\\s+(?:are\\s+)?(?:my\\s+)?(?:reminders|alerts|tasks)" :>
      Cat(<<Words(<<"what", "show">>), WS1, Opt(Cat(<<Lit("are"), WS1>>)), Opt(Cat(<<Lit("my"),
          WS1>>)), Words(<<"reminders", "alerts", "tasks">>)>>)
  @@
  "(?:cancel|delete|remove)\\s+(?:the\\s+)?(?:reminder|alert)" :>
      Cat(<<Words(<<"cancel", "delete", "remove">>), WS1, Opt(Cat(<<Lit("the"), WS1>>)),
          Words(<<"reminder", "alert">>)>>)
  @@
  "(?:what|how)\\s+(?:is|will)\\s+(?:the\\s+)?weather" :>
      Cat(<<Words(<<"what", "how">>), WS1, Words(<<"is", "will">>), WS1, Opt(Cat(<<Lit("the"),
          WS1>>)), Lit("weather")>>)
  @@
  "(?:weather\\s+)?(?:forecast|report|conditions)" :>
      Cat(<<Opt(Cat(<<Lit("weather"), WS1>>)), Words(<<"forecast", "report", "conditions">>)>>)
  @@
  "(?:is\\s+it|will\\s+it)\\s+(?:rain|snow|sunny|cloudy)" :>
      Cat(<<Alt(<<Cat(<<Lit("is"), WS1, Lit("it")>>), Cat(<<Lit("will"), WS1, Lit("it")>>)>>),
          WS1, Words(<<"rain", "snow", "sunny", "cloudy">>)>>)
  @@
  "(?:temperature|temp)\\s+(?:today|tomorrow|outside)" :>
      Cat(<<Words(<<"temperature", "temp">>), WS1, Words(<<"today", "tomorrow", "outside">>)>>)
  @@
  "(?:should\\s+i|do\\s+i\\s+need)\\s+(?:bring\\s+)?(?:an?\\s+)?(?:umbrella|jacket|coat)" :>
      Cat(<<Alt(<<Cat(<<Lit("should"), WS1, Lit("i")>>), Cat(<<Lit("do"), WS1, Lit("i"), WS1,
          Lit("need")>>)>>), WS1, Opt(Cat(<<Lit("bring"), WS1>>)), OptArticle,
          Words(<<"umbrella", "jacket", "coat">>)>>)
  @@
  "(?:what|show)\\s+(?:is|are)\\s+(?:the\\s+)?(?:latest\\s+)?news" :>
      Cat(<<Words(<<"what", "show">>), WS1, Words(<<"is", "are">>), WS1, Opt(Cat(<<Lit("the"),
          WS1>>)), Opt(Cat(<<Lit("latest"), WS1>>)), Lit("news")>>)
  @@
  "(?:news|headlines|updates)\\s+(?:about|on|for)" :>
      Cat(<<Words(<<"news", "headlines", "updates">>), WS1, Words(<<"about", "on", "for">>)>>)
  @@
  "(?:what|anything)\\s+(?:new|happening)\\s+(?:in|about|with)" :>
      Cat(<<Words(<<"what", "anything">>), WS1, Words(<<"new", "happening">>), WS1, Words(<<"in",
          "about", "with">>)>>)
  @@
  "(?:current\\s+)?(?:events|affairs|happenings)" :>
      Cat(<<Opt(Cat(<<Lit("current"), WS1>>)), Words(<<"events", "affairs", "happenings">>)>>)
  @@
  "(?:breaking|latest)\\s+news" :>
      Cat(<<Words(<<"breaking", "latest">>), WS1, Lit("news")>>)
  @@
  "(?:search|look up|find|google)\\s+(?:for\\s+)?" :>
      Cat(<<Words(<<"search", "look up", "find", "google">>), WS1, Opt(Cat(<<Lit("for"),
          WS1>>))>>)
  @@
  "(?:what|who|where|when|why|how)\\s+(?:is|are|was|were|do|does|did)" :>
      Cat(<<Words(<<"what", "who", "where", "when", "why", "how">>), WS1, Words(<<"is", "are",
          "was", "were", "do", "does", "did">>)>>)
  @@
  "(?:tell|show)\\s+me\\s+(?:about|more\\s+about)" :>
      Cat(<<Words(<<"tell", "show">>), WS1, Lit("me"), WS1, Alt(<<Lit("about"),
          Cat(<<Lit("more"), WS1, Lit("about")>>)>>)>>)
  @@
  "(?:information|info|details)\\s+(?:about|on|for)" :>
      Cat(<<Words(<<"information", "info", "details">>), WS1, Words(<<"about", "on", "for">>)>>)
  @@
  "(?:can\\s+you\\s+)?(?:help\\s+me\\s+)?(?:find|locate)" :>
      Cat(<<Opt(Cat(<<Lit("can"), WS1, Lit("you"), WS1>>)), Opt(Cat(<<Lit("help"), WS1,
          Lit("me"), WS1>>)), Words(<<"find", "locate">>)>>)
  @@
  "(?:today|tomorrow|yesterday)" :>
      Words(<<"today", "tomorrow", "yesterday">>)
  @@
  "(?:monday|tuesday|wednesday|thursday|friday|saturday|sunday)" :>
      Words(<<"monday", "tuesday", "wednesday", "thursday", "friday", "saturday", "sunday">>)
  @@
  "(?:january|february|march|april|may|june|july|august|september|october|november|december)" :>
      Words(<<"january", "february", "march", "april", "may", "june", "july", "august",
          "september", "october", "november", "december">>)
  @@
  "\\d{1,2}:\\d{2}(?:\\s*(?:am|pm))?" :>
      Cat(<<Rep(Digit, 1, 2), Lit(":"), Rep(Digit, 2, 2), Opt(Cat(<<WS0, AmPm>>))>>)
  @@
  "\\d{1,2}/\\d{1,2}(?:/\\d{2,4})?" :>
      Cat(<<Rep(Digit, 1, 2), Lit("/"), Rep(Digit, 1, 2), Opt(Cat(<<Lit("/"), Rep(Digit, 2,
          4)>>))>>)
  @@
  "(?:in\\s+)?\\d+\\s+(?:minutes?|hours?|days?|weeks?|months?)" :>
      Cat(<<Opt(Cat(<<Lit("in"), WS1>>)), Plus(Digit), WS1, Plural(<<"minute", "hour", "day",
          "week", "month">>)>>)
  @@
  "(?:next|this)\\s+(?:week|month|year)" :>
      Cat(<<Words(<<"next", "this">>), WS1, Words(<<"week", "month", "year">>)>>)
  @@
  "(?:at\\s+)?\\d{1,2}(?::\\d{2})?\\s*(?:am|pm)" :>
      Cat(<<Opt(Cat(<<Lit("at"), WS1>>)), Rep(Digit, 1, 2), Opt(Cat(<<Lit(":"), Rep(Digit, 2,
          2)>>)), WS0, AmPm>>)
  @@
  "(?:in|at|near|around)\\s+[A-Z][a-z]+(?:\\s+[A-Z][a-z]+)*" :>
      Cat(<<Words(<<"in", "at", "near", "around">>), WS1, CapWords>>)
  @@
  "[A-Z][a-z]+,\\s*[A-Z]{2}" :>
      Cat(<<CapWord, Lit(","), WS0, Rep(Upper, 2, 2)>>)
  @@
  "\\d+\\s+[A-Za-z\\s]+(?:Street|St|Avenue|Ave|Road|Rd|Boulevard|Blvd)" :>
      Cat(<<Plus(Digit), WS1, Plus(Set(UpperLetters \cup LowerLetters \cup Whitespace)),
          Words(<<"Street", "St", "Avenue", "Ave", "Road", "Rd", "Boulevard", "Blvd">>)>>)
  @@
  "(?:with|to|from)\\s+[A-Z][a-z]+(?:\\s+[A-Z][a-z]+)*" :>
      Cat(<<Words(<<"with", "to", "from">>), WS1, CapWords>>)
  @@
  "[A-Z][a-z]+@[a-z]+\\.[a-z]+" :>
      Cat(<<CapWord, Lit("@"), Plus(LowerCls), Lit("."), Plus(LowerCls)>>)
  @@
  "\\d+\\s+(?:minutes?|hours?|days?|weeks?|months?|years?)" :>
      Cat(<<Plus(Digit), WS1, Plural(<<"minute", "hour", "day", "week", "month", "year">>)>>)
  @@
  "(?:for\\s+)?\\d+\\s*(?:min|hr|h|d|w|m|y)" :>
      Cat(<<Opt(Cat(<<Lit("for"), WS1>>)), Plus(Digit), WS0, Words(<<"min", "hr", "h", "d", "w",
          "m", "y">>)>>)
  @@
  "(?:half\\s+an?\\s+|quarter\\s+)?hour" :>
      Cat(<<Opt(Alt(<<Cat(<<Lit("half"), WS1, Lit("a"), Opt(Lit("n")), WS1>>),
          Cat(<<Lit("quarter"), WS1>>)>>)), Lit("hour")>>)
  @@
  "(?:about|regarding|concerning)\\s+([^,.!?]+)" :>
      Cat(<<Words(<<"about", "regarding", "concerning">>), WS1, TopicText>>)
  @@
  "(?:subject|topic):\\s*([^,.!?]+)" :>
      Cat(<<Words(<<"subject", "topic">>), Lit(":"), WS0, TopicText>>)

\* The same under re.IGNORECASE: re's cache of compiled patterns.
CompiledIgnoreCase ==
  [pattern \in DOMAIN Compiled |-> FoldCase(Compiled[pattern])] @@ [pattern \in {} |-> pattern]

\* re.compile(pattern, flags), the first step of re.search and re.finditer;
\* ignorecase tells whether flags is re.IGNORECASE.
re_compile(pattern, ignorecase) ==
  IF ignorecase THEN CompiledIgnoreCase[pattern] ELSE Compiled[pattern]


\* A Python call either returns a value or raises.
Return(v) == [raised |-> FALSE, exc |-> None, value |-> v]

Raise(e) == [raised |-> TRUE, exc |-> e, value |-> None]

\* _calculate_confidence starting from a base confidence of 0.5.
_calculate_confidence_LowBase(match, text) ==
  LET whole == Group0(text, match) = text
      base  == IF whole THEN FAdd(Frac(5, 10), Frac(15, 100)) ELSE Frac(5, 10)
  IN  IF Len(text) = 0
      THEN Raise("division by zero")
      ELSE Return(FMin(FAdd(base, FMul(Frac(match.end - match.start, Len(text)), Frac(1, 10))),
                       Frac(1, 1)))

\* _calculate_confidence without the final min(confidence, 1.0).
_calculate_confidence_Unclamped(match, text) ==
  LET whole == Group0(text, match) = text
      base  == IF whole THEN FAdd(Frac(8, 10), Frac(15, 100)) ELSE Frac(8, 10)
  IN  IF Len(text) = 0
      THEN Raise("division by zero")
      ELSE Return(FAdd(base, FMul(Frac(match.end - match.start, Len(text)), Frac(1, 10))))

\* IntentRecognizer._calculate_confidence(match, text, pattern); `text` is the
\* lower-cased, stripped text. The division raises on an empty text.
_calculate_confidence(match, text) ==
  LET whole        == Group0(text, match) = text
      base         == IF whole THEN FAdd(Frac(8, 10), Frac(15, 100)) ELSE Frac(8, 10)
      match_length == match.end - match.start
      text_length  == Len(text)
  IN  IF text_length = 0
      THEN Raise("division by zero")
      ELSE Return(FMin(FAdd(base, FMul(Frac(match_length, text_length), Frac(1, 10))),
                       Frac(1, 1)))

CreateWords == <<"create", "add", "set", "schedule", "send", "compose">>

ReadWords == <<"show", "list", "check", "read", "what", "when">>

UpdateWords == <<"update", "change", "modify", "edit", "reschedule">>

DeleteWords == <<"delete", "remove", "cancel">>

\* _extract_action trying the read keywords before the create keywords.
_extract_action_ReadFirst(text, possible_actions) ==
  LET hits == {j \in DOMAIN possible_actions : Contains(text, possible_actions[j])}
  IN  IF hits # {}
      THEN possible_actions[CHOOSE j \in hits : \A n \in hits : j <= n]
      ELSE IF ContainsAny(text, ReadWords) THEN "read"
      ELSE IF ContainsAny(text, CreateWords) THEN "create"
      ELSE IF ContainsAny(text, UpdateWords) THEN "update"
      ELSE IF ContainsAny(text, DeleteWords) THEN "delete"
      ELSE IF possible_actions # <<>> THEN possible_actions[1] ELSE None

\* IntentRecognizer._extract_action(text, possible_actions)
_extract_action(text, possible_actions) ==
  LET hits == {j \in DOMAIN possible_actions : Contains(text, possible_actions[j])}
  IN  IF hits # {}
      THEN possible_actions[CHOOSE j \in hits : \A n \in hits : j <= n]
      ELSE IF ContainsAny(text, CreateWords) THEN "create"
      ELSE IF ContainsAny(text, ReadWords) THEN "read"
      ELSE IF ContainsAny(text, UpdateWords) THEN "update"
      ELSE IF ContainsAny(text, DeleteWords) THEN "delete"
      ELSE IF possible_actions # <<>> THEN possible_actions[1] ELSE None

chat_indicators ==
  <<"hello", "hi", "hey", "good morning", "good afternoon", "good evening",
    "how are you", "what's up", "thanks", "thank you", "please", "sorry",
    "yes", "no", "okay", "ok", "sure", "maybe", "i think", "i believe">>

\* IntentRecognizer._is_general_chat(text)
_is_general_chat(text) == ContainsAny(text, chat_indicators)

\* Entity(type, value, confidence, start_pos, end_pos)
Entity(entity_type, text, m) ==
  [type |-> entity_type, value |-> Strip(Group0(text, m)), confidence |-> Frac(8, 10),
   start_pos |-> m.start, end_pos |-> m.end]

\* IntentRecognizer._extract_entities(text): kinds in table order, patterns in
\* order, every re.finditer match of the original-case text, re.IGNORECASE.
_extract_entities(entity_extractors, text) ==
  Flatten([e \in DOMAIN entity_extractors |->
    Flatten([p \in DOMAIN entity_extractors[e].patterns |->
      LET ms == FindIterFrom(re_compile(entity_extractors[e].patterns[p], TRUE), Lower(text), 1)
      IN  [n \in DOMAIN ms |-> Entity(entity_extractors[e].entity_type, text, ms[n])]])])

\* The candidates of a catalog whose Search group ends with a pattern all of
\* whose parts are optional, "(?:please\s+)?": it matches every text, the empty
\* one included.
Candidates_OptionalPattern(patterns) ==
  Append(Flatten([i \in DOMAIN patterns |->
           Flatten([g \in DOMAIN patterns[i].groups |->
             [p \in DOMAIN patterns[i].groups[g].patterns |->
                [intent_type |-> patterns[i].intent_type,
                 pattern     |-> patterns[i].groups[g].patterns[p],
                 compiled    |-> re_compile(patterns[i].groups[g].patterns[p], FALSE),
                 actions     |-> patterns[i].groups[g].actions]]])]),
         [intent_type |-> SEARCH, pattern |-> "(?:please\\s+)?",
          compiled |-> Opt(Cat(<<Lit("please"), WS1>>)),
          actions |-> <<"web_search", "information", "lookup">>])

\* The (intent_type, pattern_group, pattern) triples in the order of the three
\* nested loops of recognize_intent, each pattern with its compiled form.
Candidates(patterns) ==
  Flatten([i \in DOMAIN patterns |->
    Flatten([g \in DOMAIN patterns[i].groups |->
      [p \in DOMAIN patterns[i].groups[g].patterns |->
         [intent_type |-> patterns[i].intent_type,
          pattern     |-> patterns[i].groups[g].patterns[p],
          compiled    |-> re_compile(patterns[i].groups[g].patterns[p], FALSE),
          actions     |-> patterns[i].groups[g].actions]]])])

\* The loop replacing the running best also on an equal confidence (>= in
\* place of >).
RECURSIVE Scan_LastWins(_, _, _, _)
Scan_LastWins(cands, n, text_lower, best) ==
  IF n > Len(cands) THEN Return(best)
  ELSE LET match == Search(cands[n].compiled, text_lower)
       IN  IF ~match.found THEN Scan_LastWins(cands, n + 1, text_lower, best)
           ELSE LET c == _calculate_confidence(match, text_lower)
                IN  IF c.raised THEN c
                    ELSE IF FLe(best.confidence, c.value)
                    THEN Scan_LastWins(cands, n + 1, text_lower,
                              [type |-> cands[n].intent_type, confidence |-> c.value,
                               action |-> _extract_action(text_lower, cands[n].actions)])
                    ELSE Scan_LastWins(cands, n + 1, text_lower, best)

\* The loop of recognize_intent from candidate n on, with the running best;
\* match = re.search(pattern, text_lower), without flags.
RECURSIVE Scan(_, _, _, _)
Scan(cands, n, text_lower, best) ==
  IF n > Len(cands) THEN Return(best)
  ELSE LET match == Search(cands[n].compiled, text_lower)
       IN  IF ~match.found THEN Scan(cands, n + 1, text_lower, best)
           ELSE LET c == _calculate_confidence(match, text_lower)
                IN  IF c.raised THEN c
                    ELSE IF FLt(best.confidence, c.value)
                    THEN Scan(cands, n + 1, text_lower,
                              [type |-> cands[n].intent_type, confidence |-> c.value,
                               action |-> _extract_action(text_lower, cands[n].actions)])
                    ELSE Scan(cands, n + 1, text_lower, best)

\* recognize_intent consulting the chat indicators whether or not a pattern
\* matched.
recognize_intent_ChatAlways(self, text) ==
  IF text = None
  THEN Raise("'NoneType' object has no attribute 'lower'")
  ELSE LET text_lower == Strip(Lower(text))
           scanned    == Scan(Candidates(self.patterns), 1, text_lower,
                              [type |-> UNKNOWN, confidence |-> Frac(0, 1), action |-> None])
       IN  IF scanned.raised THEN scanned
           ELSE LET best == scanned.value
                    chat == _is_general_chat(text_lower)
                IN  Return([type       |-> IF chat THEN GENERAL_CHAT ELSE best.type,
                            confidence |-> IF chat THEN Frac(7, 10) ELSE best.confidence,
                            entities   |-> _extract_entities(self.entity_extractors, text),
                            raw_text   |-> text,
                            action     |-> best.action])

\* IntentRecognizer.recognize_intent(text)
recognize_intent(self, text) ==
  IF text = None
  THEN Raise("'NoneType' object has no attribute 'lower'")
  ELSE LET text_lower == Strip(Lower(text))
           scanned    == Scan(Candidates(self.patterns), 1, text_lower,
                              [type |-> UNKNOWN, confidence |-> Frac(0, 1), action |-> None])
       IN  IF scanned.raised THEN scanned
           ELSE LET best == scanned.value
                    chat == best.type = UNKNOWN /\ _is_general_chat(text_lower)
                IN  Return([type       |-> IF chat THEN GENERAL_CHAT ELSE best.type,
                            confidence |-> IF chat THEN Frac(7, 10) ELSE best.confidence,
                            entities   |-> _extract_entities(self.entity_extractors, text),
                            raw_text   |-> text,
                            action     |-> best.action])

NoRequirements == <<>>

\* get_required_entities asking for a topic where the table has no entry.
get_required_entities_TopicDefault(intent_type, action) ==
  LET requirements ==
        [calendar |-> [create |-> <<"datetime">>, read |-> <<>>, update |-> <<"datetime">>,
                       delete |-> <<"datetime">>, list |-> <<>>],
         email    |-> [send |-> <<"person", "topic">>, read |-> <<>>, reply |-> <<"topic">>,
                       forward |-> <<"person">>, delete |-> <<>>],
         reminder |-> [create |-> <<"datetime", "topic">>, read |-> <<>>,
                       update |-> <<"datetime", "topic">>, delete |-> <<"topic">>,
                       list |-> <<>>],
         weather  |-> [current |-> <<>>, forecast |-> <<"datetime">>,
                       conditions |-> <<"location">>],
         news     |-> [headlines |-> <<>>, search |-> <<"topic">>, category |-> <<"topic">>],
         search   |-> [web_search |-> <<"topic">>, information |-> <<"topic">>,
                       lookup |-> <<"topic">>]]
  IN  IF intent_type \in DOMAIN requirements /\ action \in DOMAIN requirements[intent_type]
      THEN requirements[intent_type][action]
      ELSE <<"topic">>

\* get_required_entities with the reminder's create row listing the topic first.
get_required_entities_TopicFirst(intent_type, action) ==
  LET requirements ==
        [calendar |-> [create |-> <<"datetime">>, read |-> <<>>, update |-> <<"datetime">>,
                       delete |-> <<"datetime">>, list |-> <<>>],
         email    |-> [send |-> <<"person", "topic">>, read |-> <<>>, reply |-> <<"topic">>,
                       forward |-> <<"person">>, delete |-> <<>>],
         reminder |-> [create |-> <<"topic", "datetime">>, read |-> <<>>,
                       update |-> <<"datetime", "topic">>, delete |-> <<"topic">>,
                       list |-> <<>>],
         weather  |-> [current |-> <<>>, forecast |-> <<"datetime">>,
                       conditions |-> <<"location">>],
         news     |-> [headlines |-> <<>>, search |-> <<"topic">>, category |-> <<"topic">>],
         search   |-> [web_search |-> <<"topic">>, information |-> <<"topic">>,
                       lookup |-> <<"topic">>]]
  IN  IF intent_type \in DOMAIN requirements /\ action \in DOMAIN requirements[intent_type]
      THEN requirements[intent_type][action]
      ELSE NoRequirements

\* IntentRecognizer.get_required_entities(intent_type, action):
\* requirements.get(intent_type, {}).get(action, [])
get_required_entities(intent_type, action) ==
  LET requirements ==
        [calendar |-> [create |-> <<"datetime">>, read |-> <<>>, update |-> <<"datetime">>,
                       delete |-> <<"datetime">>, list |-> <<>>],
         email    |-> [send |-> <<"person", "topic">>, read |-> <<>>, reply |-> <<"topic">>,
                       forward |-> <<"person">>, delete |-> <<>>],
         reminder |-> [create |-> <<"datetime", "topic">>, read |-> <<>>,
                       update |-> <<"datetime", "topic">>, delete |-> <<"topic">>,
                       list |-> <<>>],
         weather  |-> [current |-> <<>>, forecast |-> <<"datetime">>,
                       conditions |-> <<"location">>],
         news     |-> [headlines |-> <<>>, search |-> <<"topic">>, category |-> <<"topic">>],
         search   |-> [web_search |-> <<"topic">>, information |-> <<"topic">>,
                       lookup |-> <<"topic">>]]
  IN  IF intent_type \in DOMAIN requirements /\ action \in DOMAIN requirements[intent_type]
      THEN requirements[intent_type][action]
      ELSE NoRequirements

\* IntentRecognizer.__init__
IntentRecognizer ==
  [patterns |-> _load_patterns, entity_extractors |-> _load_entity_extractors]

\* ------------------------------------------------------------------------
\* assistant_service.py
\* ------------------------------------------------------------------------

\* AssistantResponse(success, message, intent_type, confidence, data=None,
\* error=None, requires_followup=False, followup_question=None,
\* is_assistant_task=False)
AssistantResponse(success, message, intent_type, confidence, data, error, requires_followup, followup_question, is_assistant_task) ==
  [success |-> success, message |-> message, intent_type |-> intent_type,
   confidence |-> confidence, data |-> data, error |-> error,
   requires_followup |-> requires_followup, followup_question |-> followup_question,
   is_assistant_task |-> is_assistant_task]

\* The three handler objects the service imports.
weather_handler == "weather_handler"

reminder_handler == "reminder_handler"

search_handler == "search_handler"

\* AssistantService.__init__
AssistantService ==
  [handlers |-> [weather |-> weather_handler, reminder |-> reminder_handler,
                 search |-> search_handler],
   confidence_threshold |-> Frac(6, 10)]

\* _check_missing_entities looking the required kinds up among the entities'
\* values instead of their types.
_check_missing_entities_ByValue(entities, required_entities) ==
  LET entity_values == {entities[n].value : n \in DOMAIN entities}
  IN  SelectSeq(required_entities, LAMBDA req : req \notin entity_values)

\* AssistantService._check_missing_entities(entities, required_entities)
_check_missing_entities(entities, required_entities) ==
  LET entity_types == {entities[n].type : n \in DOMAIN entities}
  IN  SelectSeq(required_entities, LAMBDA req : req \notin entity_types)

\* ', '.join(parts)
RECURSIVE Join(_)
Join(parts) ==
  IF parts = <<>> THEN ""
  ELSE IF Len(parts) = 1 THEN parts[1]
  ELSE parts[1] \o ", " \o Join(Tail(parts))

\* _generate_followup_question asking for the first missing kind only.
_generate_followup_question_FirstOnly(intent_type, action, missing_entities) ==
  LET questions ==
        [weather  |-> [location |-> "Which city or location would you like the weather for?",
                       datetime |-> "For what date would you like the weather forecast?"],
         reminder |-> [topic    |-> "What would you like me to remind you about?",
                       datetime |-> "When would you like to be reminded? (e.g., 'tomorrow at 3pm', 'in 2 hours')"],
         search   |-> [topic    |-> "What would you like me to search for?"],
         calendar |-> [datetime |-> "When would you like to schedule this? (e.g., 'tomorrow at 2pm', 'next Monday')",
                       topic    |-> "What is this meeting or event about?"],
         email    |-> [person   |-> "Who would you like to send this email to?",
                       topic    |-> "What is the subject or content of the email?"]]
      known(entity) == intent_type \in DOMAIN questions /\ entity \in DOMAIN questions[intent_type]
  IN  IF Len(missing_entities) >= 1
      THEN LET entity == missing_entities[1]
           IN  IF known(entity) THEN questions[intent_type][entity]
               ELSE "I need more information about the " \o entity \o "."
      ELSE "I need to know: " \o
           Join([n \in DOMAIN missing_entities |->
                   IF known(missing_entities[n]) THEN questions[intent_type][missing_entities[n]]
                   ELSE missing_entities[n]])

\* AssistantService._generate_followup_question(intent_type, action, missing_entities)
_generate_followup_question(intent_type, action, missing_entities) ==
  LET questions ==
        [weather  |-> [location |-> "Which city or location would you like the weather for?",
                       datetime |-> "For what date would you like the weather forecast?"],
         reminder |-> [topic    |-> "What would you like me to remind you about?",
                       datetime |-> "When would you like to be reminded? (e.g., 'tomorrow at 3pm', 'in 2 hours')"],
         search   |-> [topic    |-> "What would you like me to search for?"],
         calendar |-> [datetime |-> "When would you like to schedule this? (e.g., 'tomorrow at 2pm', 'next Monday')",
                       topic    |-> "What is this meeting or event about?"],
         email    |-> [person   |-> "Who would you like to send this email to?",
                       topic    |-> "What is the subject or content of the email?"]]
      known(entity) == intent_type \in DOMAIN questions /\ entity \in DOMAIN questions[intent_type]
  IN  IF Len(missing_entities) = 1
      THEN LET entity == missing_entities[1]
           IN  IF known(entity) THEN questions[intent_type][entity]
               ELSE "I need more information about the " \o entity \o "."
      ELSE "I need to know: " \o
           Join([n \in DOMAIN missing_entities |->
                   IF known(missing_entities[n]) THEN questions[intent_type][missing_entities[n]]
                   ELSE missing_entities[n]])

\* The except clause of process_request (lines 121-130).
ErrorResponse(e) ==
  AssistantResponse(FALSE,
                    "I encountered an error while processing your request. Please try again.",
                    "error", Frac(0, 1), None, e, FALSE, None, TRUE)

\* process_request, lines 62-76: the response when the text is no assistant task.
GeneralConversationResponse(intent) ==
  AssistantResponse(TRUE,
                    "This doesn't appear to be a personal assistant task. I'll handle it as a general conversation.",
                    intent.type, intent.confidence, None, None, FALSE, None, FALSE)

\* The handler-unavailable response built without is_assistant_task=True, which
\* leaves the field at its default.
NoHandlerResponse_DefaultTaskFlag(intent) ==
  AssistantResponse(FALSE,
                    "I understand you want help with " \o intent.type \o
                      ", but that feature isn't available yet.",
                    intent.type, intent.confidence, None,
                    "No handler available for " \o intent.type, FALSE, None, FALSE)

\* process_request, lines 78-88: the response when the registry has no handler.
NoHandlerResponse(intent) ==
  AssistantResponse(FALSE,
                    "I understand you want help with " \o intent.type \o
                      ", but that feature isn't available yet.",
                    intent.type, intent.confidence, None,
                    "No handler available for " \o intent.type, FALSE, None, TRUE)

\* process_request, lines 94-104: the response asking for the missing entities.
FollowupResponse(intent, missing_entities) ==
  AssistantResponse(TRUE, "I need a bit more information to help you with that.",
                    intent.type, intent.confidence, None, None, TRUE,
                    _generate_followup_question(intent.type, intent.action, missing_entities),
                    TRUE)

\* The pass-through reporting success whatever the handler reported.
HandlerPassThrough_AlwaysSuccess(intent, handler_response) ==
  AssistantResponse(TRUE, handler_response.message,
                    intent.type, intent.confidence, handler_response.data,
                    handler_response.error, handler_response.requires_followup,
                    handler_response.followup_question, TRUE)

\* process_request, lines 109-119: the handler's response under the intent.
HandlerPassThrough(intent, handler_response) ==
  AssistantResponse(handler_response.success, handler_response.message,
                    intent.type, intent.confidence, handler_response.data,
                    handler_response.error, handler_response.requires_followup,
                    handler_response.followup_question, TRUE)

\* The position of a process_request call: where it stands ("awaiting" the
\* handler, "done" once it has returned, "raised" if an exception left it), the
\* intent it recognized, the steps it has entered so far, the handler
\* invocations it has made, and the response it has returned.
Frame(pc, intent, steps, calls, returned) ==
  [pc |-> pc, intent |-> intent, steps |-> steps, calls |-> calls, returned |-> returned]

\* FailureContainment with an except clause that does not match the exception:
\* the exception leaves process_request.
FailureContainment_NotCaught(e, intent, steps, calls) ==
  [pc |-> "raised", intent |-> intent, steps |-> steps, calls |-> calls, returned |-> <<>>]

\* Lines 121-130: an exception raised in the try block becomes the error response.
FailureContainment(e, intent, steps, calls) ==
  Frame("done", intent, Append(steps, "failure_containment"), calls, <<ErrorResponse(e)>>)

\* Lines 106-107: handler.execute(intent, intent.entities, request.context) is
\* called and awaited; the call is suspended until the handler answers.
HandlerExecution(request, intent, handler, steps) ==
  Frame("awaiting", <<intent>>, Append(steps, "handler_execution"),
        <<[handler |-> handler, intent |-> intent, entities |-> intent.entities,
           context |-> request.context]>>,
        <<>>)

\* Lines 90-104
MissingEntityGate(request, intent, handler, steps) ==
  LET required_entities == get_required_entities(intent.type, intent.action)
      missing_entities  == _check_missing_entities(intent.entities, required_entities)
      entered           == Append(steps, "missing_entity_gate")
  IN  IF missing_entities # <<>>
      THEN Frame("done", <<intent>>, entered, <<>>, <<FollowupResponse(intent, missing_entities)>>)
      ELSE HandlerExecution(request, intent, handler, entered)

\* HandlerResolution with the entities validated before the handler is looked up.
HandlerResolution_AfterEntities(self, request, intent, steps) ==
  LET missing_entities == _check_missing_entities(intent.entities,
                            get_required_entities(intent.type, intent.action))
      entered == Append(Append(steps, "handler_resolution"), "missing_entity_gate")
  IN  IF missing_entities # <<>>
      THEN Frame("done", <<intent>>, entered, <<>>, <<FollowupResponse(intent, missing_entities)>>)
      ELSE IF intent.type \notin DOMAIN self.handlers
      THEN Frame("done", <<intent>>, entered, <<>>, <<NoHandlerResponse(intent)>>)
      ELSE HandlerExecution(request, intent, self.handlers[intent.type], entered)

\* Lines 78-88: handler = self.handlers.get(intent.type)
HandlerResolution(self, request, intent, steps) ==
  LET entered == Append(steps, "handler_resolution")
  IN  IF intent.type \notin DOMAIN self.handlers
      THEN Frame("done", <<intent>>, entered, <<>>, <<NoHandlerResponse(intent)>>)
      ELSE MissingEntityGate(request, intent, self.handlers[intent.type], entered)

\* is_assistant_task without the test for GENERAL_CHAT.
is_assistant_task_ChatIncluded(self, intent) ==
  /\ intent.type # UNKNOWN
  /\ FLe(self.confidence_threshold, intent.confidence)

\* Lines 62-67
is_assistant_task(self, intent) ==
  /\ intent.type # UNKNOWN
  /\ intent.type # GENERAL_CHAT
  /\ FLe(self.confidence_threshold, intent.confidence)

\* Lines 62-76
ThresholdGate(self, request, intent, steps) ==
  LET entered == Append(steps, "threshold_gate")
  IN  IF ~is_assistant_task(self, intent)
      THEN Frame("done", <<intent>>, entered, <<>>, <<GeneralConversationResponse(intent)>>)
      ELSE HandlerResolution(self, request, intent, entered)

\* ------------------------------------------------------------------------
\* Inputs
\* ------------------------------------------------------------------------

\* Concurrent calls in flight.
NumReqs == 2

\* Phrases per generated text.
MaxParts == 2

Reqs == 1..NumReqs

Phrases ==
  <<"Remind me to", "remind me about", "tomorrow", "what is the weather",
    "schedule a meeting", "hello">>

\* The texts of exactly n phrases, joined by single spaces.
RECURSIVE Composed(_)
Composed(n) ==
  IF n = 1 THEN {Phrases[j] : j \in DOMAIN Phrases}
  ELSE {t \o " " \o Phrases[j] : t \in Composed(n - 1), j \in DOMAIN Phrases}

\* The example utterances of AssistantService.get_capabilities (lines 171-200).
CapabilityExamples ==
  [weather   |-> <<"What's the weather like?", "Will it rain tomorrow?",
                   "Weather forecast for New York">>,
   reminders |-> <<"Remind me to call mom at 3pm", "Set a reminder for my meeting tomorrow",
                   "What are my reminders?">>,
   search    |-> <<"Search for the latest news about AI", "What is the capital of France?",
                   "Find information about climate change">>]

\* The documented examples, further utterances, the empty and the blank text,
\* and a request built without a text.
Examples ==
  UNION {{CapabilityExamples[c][n] : n \in DOMAIN CapabilityExamples[c]} :
           c \in DOMAIN CapabilityExamples}
    \cup {"Remind me to call mom", "hello, thanks!", "", " ", None,
          "show my tasks show my inbox", "cancel my meeting", "reschedule my meeting",
          " \t\n"}

Corpus == UNION {Composed(n) : n \in 1..MaxParts} \cup Examples

\* The texts of the concurrent calls.
RequestTexts ==
  {"hello", "schedule a meeting", "Remind me to call mom", "remind me about tomorrow",
   "what is the weather", None}

AllTexts == Corpus \cup RequestTexts

UserIds == {"user-1"}

\* The actions get_required_entities is called with: every action of the
\* catalog's groups, the four of _extract_action's keyword families, no
\* action, and the empty string the test-intent endpoint passes for none.
ActionInputs ==
  UNION {UNION {{_load_patterns[i].groups[g].actions[a] :
                   a \in DOMAIN _load_patterns[i].groups[g].actions} :
                  g \in DOMAIN _load_patterns[i].groups} :
           i \in DOMAIN _load_patterns}
    \cup {"create", "read", "update", "delete", None, ""}

\* The entity kinds of _load_entity_extractors.
EntityKinds ==
  {_load_entity_extractors[e].entity_type : e \in DOMAIN _load_entity_extractors}

\* Missing kinds per follow-up question.
MaxMissing == 2

\* The non-empty lists of at most n entity kinds.
RECURSIVE KindLists(_)
KindLists(n) ==
  IF n = 1 THEN {<<k>> : k \in EntityKinds}
  ELSE KindLists(n - 1) \cup {Append(l, k) : l \in KindLists(n - 1), k \in EntityKinds}

\* request.context: a mapping, as its set of <<key, value>> items.
Contexts == {{}, {<<"location", "Paris">>}}

\* AssistantRequest(text, user_id, context)
AssistantRequest(text, user_id, context) ==
  [text |-> text, user_id |-> user_id, context |-> context]

\* What a handler's execute may answer: a HandlerResponse(success, message,
\* data, error, requires_followup, followup_question) ...
HandlerResponses ==
  { [success |-> TRUE, message |-> "Done.", data |-> "{result}", error |-> None,
     requires_followup |-> FALSE, followup_question |-> None],
    [success |-> FALSE, message |-> "Could not complete that.", data |-> None,
     error |-> "service unavailable", requires_followup |-> TRUE,
     followup_question |-> "Try another location?"] }

\* ... or an exception (a subclass of Exception; cancellation of the awaiting
\* task is the transport layer's and is not modelled).
HandlerErrors == {"connection timed out"}

\* recognize_intent on the tables as constructed, tabulated once per text.
Recognized ==
  [t \in AllTexts |-> recognize_intent(IntentRecognizer, t)] @@ [t \in {} |-> t]

\* intent_recognizer.recognize_intent(text)
RecognizeCall(recognizer, text) ==
  IF recognizer = IntentRecognizer /\ text \in AllTexts
  THEN Recognized[text]
  ELSE recognize_intent(recognizer, text)

\* AssistantService.process_request(request), from its call to its first
\* suspension or its return (lines 54-107 and 121-130).
process_request(self, recognizer, request) ==
  LET recognized == RecognizeCall(recognizer, request.text)
  IN  IF recognized.raised
      THEN FailureContainment(recognized.exc, <<>>, <<"classify">>, <<>>)
      ELSE ThresholdGate(self, request, recognized.value, <<"classify">>)

\* ------------------------------------------------------------------------
\* State
\* ------------------------------------------------------------------------

VARIABLES
  intent_recognizer,   \* the module-level IntentRecognizer instance
  assistant_service,   \* the module-level AssistantService instance
  op,                  \* per call: the operation called, or None
  request,             \* per call: <<the AssistantRequest>> or <<the text>>
  frame,               \* per call: the Frame of a process_request
  handler_outcome,     \* per call: <<what the awaited handler.execute did>>
  result               \* per call: <<what recognize_intent returned or raised>>

vars == <<intent_recognizer, assistant_service, op, request, frame, handler_outcome, result>>

IdleFrame == Frame("idle", <<>>, <<>>, <<>>, <<>>)

Init ==
  /\ intent_recognizer = IntentRecognizer
  /\ assistant_service = AssistantService
  /\ op = [r \in Reqs |-> None]
  /\ request = [r \in Reqs |-> <<>>]
  /\ frame = [r \in Reqs |-> IdleFrame]
  /\ handler_outcome = [r \in Reqs |-> <<>>]
  /\ result = [r \in Reqs |-> <<>>]

Tables == <<intent_recognizer, assistant_service>>

\* process_request taking the handler out of the registry (handlers.pop in
\* place of handlers.get) when it resolves one.
ProcessRequest_PopsHandler(r, text, user_id, context) ==
  /\ op[r] = None
  /\ LET req == AssistantRequest(text, user_id, context)
         f   == process_request(assistant_service, intent_recognizer, req)
         h   == assistant_service.handlers
     IN  /\ op' = [op EXCEPT ![r] = "process_request"]
         /\ request' = [request EXCEPT ![r] = <<req>>]
         /\ frame' = [frame EXCEPT ![r] = f]
         /\ assistant_service' =
              IF f.calls = <<>> THEN assistant_service
              ELSE [assistant_service EXCEPT
                      !.handlers = [k \in DOMAIN h \ {f.calls[1].intent.type} |-> h[k]]]
  /\ UNCHANGED <<intent_recognizer, handler_outcome, result>>

\* A caller calls assistant_service.process_request(AssistantRequest(...)); the
\* coroutine runs to the handler's await or to its return.
ProcessRequest(r, text, user_id, context) ==
  /\ op[r] = None
  /\ LET req == AssistantRequest(text, user_id, context)
     IN  /\ op' = [op EXCEPT ![r] = "process_request"]
         /\ request' = [request EXCEPT ![r] = <<req>>]
         /\ frame' = [frame EXCEPT ![r] = process_request(assistant_service, intent_recognizer, req)]
  /\ UNCHANGED <<Tables, handler_outcome, result>>

\* HandlerReturns with the intent kept in an attribute of the shared service
\* object instead of a local: after the await the call reads the intent another
\* call in flight has stored there.
HandlerReturns_SharedIntent(r, handler_response) ==
  /\ frame[r].pc = "awaiting"
  /\ LET others == {s \in Reqs \ {r} : frame[s].intent # <<>>}
         intent == IF others = {} THEN frame[r].intent[1]
                   ELSE frame[CHOOSE s \in others : TRUE].intent[1]
     IN  frame' = [frame EXCEPT ![r] =
                     Frame("done", @.intent, @.steps, @.calls,
                           <<HandlerPassThrough(intent, handler_response)>>)]
  /\ handler_outcome' = [handler_outcome EXCEPT ![r] = <<Return(handler_response)>>]
  /\ UNCHANGED <<Tables, op, request, result>>

\* The awaited handler.execute returns a HandlerResponse (lines 107-119).
HandlerReturns(r, handler_response) ==
  /\ frame[r].pc = "awaiting"
  /\ frame' = [frame EXCEPT ![r] =
                 Frame("done", @.intent, @.steps, @.calls,
                       <<HandlerPassThrough(@.intent[1], handler_response)>>)]
  /\ handler_outcome' = [handler_outcome EXCEPT ![r] = <<Return(handler_response)>>]
  /\ UNCHANGED <<Tables, op, request, result>>

\* The awaited handler.execute raises (lines 107 and 121-130).
HandlerRaises(r, e) ==
  /\ frame[r].pc = "awaiting"
  /\ frame' = [frame EXCEPT ![r] = FailureContainment(e, @.intent, @.steps, @.calls)]
  /\ handler_outcome' = [handler_outcome EXCEPT ![r] = <<Raise(e)>>]
  /\ UNCHANGED <<Tables, op, request, result>>

\* A caller calls intent_recognizer.recognize_intent(text) directly, as the
\* test-intent endpoint does.
RecognizeIntent(r, text) ==
  /\ op[r] = None
  /\ op' = [op EXCEPT ![r] = "recognize_intent"]
  /\ request' = [request EXCEPT ![r] = <<text>>]
  /\ result' = [result EXCEPT ![r] = <<RecognizeCall(intent_recognizer, text)>>]
  /\ UNCHANGED <<Tables, frame, handler_outcome>>

\* A caller calls intent_recognizer.get_required_entities(intent_type, action),
\* as process_request and the test-intent endpoint do.
GetRequiredEntities(r, intent_type, action) ==
  /\ op[r] = None
  /\ op' = [op EXCEPT ![r] = "get_required_entities"]
  /\ request' = [request EXCEPT ![r] = <<[intent_type |-> intent_type, action |-> action]>>]
  /\ result' = [result EXCEPT ![r] = <<Return(get_required_entities(intent_type, action))>>]
  /\ UNCHANGED <<Tables, frame, handler_outcome>>

\* A caller calls assistant_service._generate_followup_question(intent_type,
\* action, missing_entities).
GenerateFollowupQuestion(r, intent_type, action, missing_entities) ==
  /\ op[r] = None
  /\ op' = [op EXCEPT ![r] = "_generate_followup_question"]
  /\ request' = [request EXCEPT ![r] =
                   <<[intent_type |-> intent_type, action |-> action,
                      missing_entities |-> missing_entities]>>]
  /\ result' = [result EXCEPT ![r] =
                  <<Return(_generate_followup_question(intent_type, action, missing_entities))>>]
  /\ UNCHANGED <<Tables, frame, handler_outcome>>

Finished(r) ==
  \/ op[r] = "process_request" /\ frame[r].pc = "done"
  \/ op[r] \in {"recognize_intent", "get_required_entities", "_generate_followup_question"}

\* The caller is done with what the call returned.
Discard(r) ==
  /\ Finished(r)
  /\ op' = [op EXCEPT ![r] = None]
  /\ request' = [request EXCEPT ![r] = <<>>]
  /\ frame' = [frame EXCEPT ![r] = IdleFrame]
  /\ handler_outcome' = [handler_outcome EXCEPT ![r] = <<>>]
  /\ result' = [result EXCEPT ![r] = <<>>]
  /\ UNCHANGED Tables

Next ==
  \E r \in Reqs :
    \/ \E t \in RequestTexts, u \in UserIds, c \in Contexts : ProcessRequest(r, t, u, c)
    \/ \E hr \in HandlerResponses : HandlerReturns(r, hr)
    \/ \E e \in HandlerErrors : HandlerRaises(r, e)
    \/ \E t \in RequestTexts : RecognizeIntent(r, t)
    \/ Discard(r)

\* Concurrent calls on the texts of RequestTexts.
Spec == Init /\ [][Next]_vars

NextSeq ==
  \/ \E t \in Corpus, u \in UserIds, c \in Contexts : ProcessRequest(1, t, u, c)
  \/ \E hr \in HandlerResponses : HandlerReturns(1, hr)
  \/ \E e \in HandlerErrors : HandlerRaises(1, e)
  \/ \E t \in Corpus : RecognizeIntent(1, t)
  \/ \E it \in DOMAIN IntentType, a \in ActionInputs :
       GetRequiredEntities(1, IntentType[it], a)
  \/ \E it \in DOMAIN IntentType, a \in {"create", None}, l \in KindLists(MaxMissing) :
       GenerateFollowupQuestion(1, IntentType[it], a, l)
  \/ Discard(1)

\* One call at a time: the two entry points on every text of the corpus, and
\* the two helper methods on their own.
SpecSeq == Init /\ [][NextSeq]_vars

TypeOK ==
  /\ \A r \in Reqs : op[r] \in {None, "process_request", "recognize_intent",
                                "get_required_entities", "_generate_followup_question"}
  /\ \A r \in Reqs : frame[r].pc \in {"idle", "awaiting", "done", "raised"}
  /\ \A r \in Reqs : Len(handler_outcome[r]) <= 1 /\ Len(result[r]) <= 1

\* ------------------------------------------------------------------------
\* Properties
\* ------------------------------------------------------------------------

ProcessCalls == {r \in Reqs : op[r] = "process_request"}

\* The calls whose classification returned an intent.
ClassifiedCalls == {r \in ProcessCalls : frame[r].intent # <<>>}

IntentOf(r) == frame[r].intent[1]

ResponseOf(r) == frame[r].returned[1]

Entered(r, step) == \E n \in DOMAIN frame[r].steps : frame[r].steps[n] = step

HasEntity(intent, kind) == \E n \in DOMAIN intent.entities : intent.entities[n].type = kind

\* The threshold of the specification.
BelowThreshold(intent) ==
  intent.type \in {UNKNOWN, GENERAL_CHAT} \/ FLt(intent.confidence, <<6, 10>>)

\* The types the reference system wires a handler for.
Wired == {WEATHER, REMINDER, SEARCH}

SomeRequiredMissing(intent) ==
  LET required == get_required_entities(intent.type, intent.action)
  IN  \E n \in DOMAIN required : ~HasEntity(intent, required[n])

Apology == "I encountered an error while processing your request. Please try again."

\* C1: every process_request call returns at most once, and what it returns is
\* decided by the first gate that fires in the order threshold gate, handler
\* resolution, missing-entity gate, handler execution, or by failure
\* containment; the steps after the deciding one are never entered. A
\* recognized intent without a handler gets the handler-unavailable response
\* even when required entities are missing, never a follow-up.
C1_FirstGateDecides ==
  \A r \in ProcessCalls :
    LET f == frame[r]
    IN  /\ f.pc \in {"awaiting", "done"}
        /\ Len(f.returned) = (IF f.pc = "done" THEN 1 ELSE 0)
        /\ IF f.intent = <<>>
           THEN /\ f.steps = <<"classify", "failure_containment">>
                /\ f.calls = <<>>
                /\ f.pc = "done" /\ ResponseOf(r).intent_type = "error"
           ELSE LET i == IntentOf(r)
                IN  IF BelowThreshold(i)
                    THEN /\ f.steps = <<"classify", "threshold_gate">>
                         /\ f.calls = <<>>
                         /\ f.pc = "done" /\ ~ResponseOf(r).is_assistant_task
                    ELSE IF i.type \notin Wired
                    THEN /\ f.steps = <<"classify", "threshold_gate", "handler_resolution">>
                         /\ f.calls = <<>>
                         /\ f.pc = "done"
                         /\ ~ResponseOf(r).success /\ ResponseOf(r).error # None
                         /\ ~ResponseOf(r).requires_followup
                         /\ ResponseOf(r).followup_question = None
                         /\ ResponseOf(r).intent_type = i.type
                    ELSE IF SomeRequiredMissing(i)
                    THEN /\ f.steps = <<"classify", "threshold_gate", "handler_resolution",
                                        "missing_entity_gate">>
                         /\ f.calls = <<>>
                         /\ f.pc = "done"
                         /\ ResponseOf(r).success /\ ResponseOf(r).requires_followup
                    ELSE /\ Len(f.calls) = 1
                         /\ (f.pc = "awaiting") = (handler_outcome[r] = <<>>)
                         /\ f.steps =
                              <<"classify", "threshold_gate", "handler_resolution",
                                "missing_entity_gate", "handler_execution">>
                              \o (IF handler_outcome[r] # <<>> /\ handler_outcome[r][1].raised
                                  THEN <<"failure_containment">> ELSE <<>>)

\* C1 witness: a calendar request whose required datetime is missing has
\* returned the handler-unavailable response.
C1_Witness ==
  \E r \in ClassifiedCalls :
    /\ frame[r].pc = "done"
    /\ IntentOf(r).type = CALENDAR
    /\ SomeRequiredMissing(IntentOf(r))
    /\ frame[r].steps = <<"classify", "threshold_gate", "handler_resolution">>
    /\ ResponseOf(r).error # None

\* Whether an exception was raised inside the try block of call r: by the
\* classification or by the awaited handler.
RaisedIn(r) ==
  \/ frame[r].intent = <<>>
  \/ handler_outcome[r] # <<>> /\ handler_outcome[r][1].raised

ExceptionOf(r) ==
  IF frame[r].intent = <<>>
  THEN RecognizeCall(intent_recognizer, request[r][1].text).exc
  ELSE handler_outcome[r][1].exc

\* C2: no exception leaves process_request; a call in which the classification
\* or the handler's execute raised has returned success=false,
\* intentType="error", confidence 0.0, the fixed apology, the failure's
\* description as error, isAssistantTask=true, requiresFollowup=false.
C2_FailureContained ==
  \A r \in ProcessCalls :
    /\ frame[r].pc # "raised"
    /\ RaisedIn(r) =>
         /\ frame[r].pc = "done"
         /\ frame[r].returned =
              << [success |-> FALSE, message |-> Apology, intent_type |-> "error",
                  confidence |-> <<0, 1>>, data |-> None, error |-> ExceptionOf(r),
                  requires_followup |-> FALSE, followup_question |-> None,
                  is_assistant_task |-> TRUE] >>

\* C2 witness: the handler of a call raised and the call has returned the
\* error response.
C2_Witness ==
  \E r \in ClassifiedCalls :
    /\ handler_outcome[r] # <<>> /\ handler_outcome[r][1].raised
    /\ frame[r].pc = "done"
    /\ ResponseOf(r).intent_type = "error"
    /\ ResponseOf(r).error = handler_outcome[r][1].exc

\* C3: a request is treated as an assistant task iff its type is neither
\* Unknown nor GeneralChat and its confidence is at least 0.6; when it is not,
\* the call returns success=true, isAssistantTask=false, requiresFollowup=false,
\* no error, the intent's type and confidence, and no handler is looked up or
\* invoked.
C3_ThresholdGate ==
  \A r \in ClassifiedCalls :
    LET i == IntentOf(r)
    IN  IF i.type # UNKNOWN /\ i.type # GENERAL_CHAT /\ FLe(<<6, 10>>, i.confidence)
        THEN /\ Entered(r, "handler_resolution")
             /\ frame[r].pc = "done" => ResponseOf(r).is_assistant_task
        ELSE /\ frame[r].pc = "done"
             /\ ~Entered(r, "handler_resolution")
             /\ ~Entered(r, "handler_execution")
             /\ frame[r].calls = <<>>
             /\ ResponseOf(r).success
             /\ ~ResponseOf(r).is_assistant_task
             /\ ~ResponseOf(r).requires_followup
             /\ ResponseOf(r).followup_question = None
             /\ ResponseOf(r).error = None
             /\ ResponseOf(r).data = None
             /\ ResponseOf(r).intent_type = i.type
             /\ ResponseOf(r).confidence = i.confidence

\* C3 witness: a general-chat intent of confidence 0.7, above the threshold, was
\* answered as general conversation.
C3_Witness ==
  \E r \in ClassifiedCalls :
    /\ frame[r].pc = "done"
    /\ IntentOf(r).type = GENERAL_CHAT
    /\ FLe(<<6, 10>>, IntentOf(r).confidence)
    /\ ~ResponseOf(r).is_assistant_task

\* The calls whose intent passed the threshold gate as an assistant task.
AssistantTasks == {r \in ClassifiedCalls : ~BelowThreshold(IntentOf(r))}

\* C4 as the specification words it: the error text starts with a small n.
C4_Original ==
  \A r \in AssistantTasks :
    IntentOf(r).type \notin DOMAIN assistant_service.handlers =>
      /\ frame[r].pc = "done"
      /\ ~ResponseOf(r).success
      /\ ResponseOf(r).error = "no handler available for " \o IntentOf(r).type
      /\ ResponseOf(r).is_assistant_task
      /\ ResponseOf(r).intent_type = IntentOf(r).type
      /\ ResponseOf(r).confidence = IntentOf(r).confidence

\* C4 (amended): only Weather, Reminder and Search have a handler in the
\* registry; an assistant task of any other type returns success=false,
\* error="No handler available for <type>" with a capital N and <type> the
\* intent type's string value, isAssistantTask=true, and the intent's type and
\* confidence.
C4_NoHandler ==
  /\ DOMAIN assistant_service.handlers = Wired
  /\ \A r \in AssistantTasks :
       IntentOf(r).type \notin DOMAIN assistant_service.handlers =>
         /\ frame[r].pc = "done"
         /\ ~ResponseOf(r).success
         /\ ResponseOf(r).error = "No handler available for " \o IntentOf(r).type
         /\ ResponseOf(r).is_assistant_task
         /\ ResponseOf(r).intent_type = IntentOf(r).type
         /\ ResponseOf(r).confidence = IntentOf(r).confidence

\* C4 witness: a text matching a Calendar trigger pattern was answered with the
\* handler-unavailable error.
C4_Witness ==
  \E r \in AssistantTasks :
    /\ request[r][1].text = "schedule a meeting"
    /\ IntentOf(r).type = CALENDAR
    /\ frame[r].pc = "done"
    /\ ResponseOf(r).error = "No handler available for calendar"

\* The required kinds no extracted entity of the intent has, in the order of
\* the requirement table.
MissingKinds(intent) ==
  SelectSeq(get_required_entities(intent.type, intent.action),
            LAMBDA kind : ~HasEntity(intent, kind))

\* C5: for an assistant task with a registered handler, the kinds asked for are
\* exactly the required kinds no extracted entity has; when there is one, the
\* call returns success=true, requiresFollowup=true, a non-empty
\* followupQuestion, isAssistantTask=true and execute is never invoked; execute
\* is invoked, once, only when no required kind is missing.
C5_MissingEntityGate ==
  /\ \A r \in AssistantTasks :
       IntentOf(r).type \in DOMAIN assistant_service.handlers =>
         LET i == IntentOf(r)
         IN  IF MissingKinds(i) # <<>>
             THEN /\ frame[r].pc = "done"
                  /\ frame[r].calls = <<>>
                  /\ ~Entered(r, "handler_execution")
                  /\ ResponseOf(r).success
                  /\ ResponseOf(r).requires_followup
                  /\ ResponseOf(r).followup_question \notin {None, ""}
                  /\ ResponseOf(r).followup_question =
                       _generate_followup_question(i.type, i.action, MissingKinds(i))
                  /\ ResponseOf(r).is_assistant_task
             ELSE /\ Len(frame[r].calls) = 1
                  /\ frame[r].calls[1].handler = assistant_service.handlers[i.type]
                  /\ frame[r].calls[1].entities = i.entities
  /\ \A r \in ProcessCalls :
       frame[r].calls # <<>> =>
         /\ Len(frame[r].calls) = 1
         /\ r \in AssistantTasks
         /\ MissingKinds(IntentOf(r)) = <<>>

\* C5 witness: a follow-up was returned to a request whose text did yield
\* entities, none of them of the missing kind, and no handler was invoked.
C5_Witness ==
  \E r \in AssistantTasks :
    /\ frame[r].pc = "done"
    /\ ResponseOf(r).requires_followup
    /\ frame[r].calls = <<>>
    /\ IntentOf(r).entities # <<>>
    /\ MissingKinds(IntentOf(r)) # <<>>

\* C6: when the awaited handler returned, the call's response carries the
\* handler response's success, message, data, error, requiresFollowup and
\* followupQuestion unchanged, the recognized intent's type and confidence, and
\* isAssistantTask=true.
C6_PassThrough ==
  \A r \in ClassifiedCalls :
    (handler_outcome[r] # <<>> /\ ~handler_outcome[r][1].raised) =>
      LET h == handler_outcome[r][1].value
      IN  /\ frame[r].pc = "done"
          /\ frame[r].returned =
               << [success |-> h.success, message |-> h.message, data |-> h.data,
                   error |-> h.error, requires_followup |-> h.requires_followup,
                   followup_question |-> h.followup_question,
                   intent_type |-> IntentOf(r).type, confidence |-> IntentOf(r).confidence,
                   is_assistant_task |-> TRUE] >>

\* C6 witness: a handler reported success=false with an error and a follow-up
\* question of its own, and the call returned them.
C6_Witness ==
  \E r \in ClassifiedCalls :
    /\ handler_outcome[r] # <<>> /\ ~handler_outcome[r][1].raised
    /\ ~handler_outcome[r][1].value.success
    /\ frame[r].pc = "done"
    /\ ~ResponseOf(r).success
    /\ ResponseOf(r).error = "service unavailable"
    /\ ResponseOf(r).followup_question = "Try another location?"

\* The text a call was made with, if it takes one.
TextOf(r) ==
  IF op[r] = "process_request" THEN request[r][1].text
  ELSE IF op[r] = "recognize_intent" THEN request[r][1]
  ELSE None

\* What recognize_intent did in a call, as far as the call shows it: the
\* returned value of a direct call, the intent a process_request went on with.
RecognitionOf(r) ==
  IF op[r] = "recognize_intent" THEN result[r]
  ELSE IF op[r] = "process_request" /\ frame[r].intent # <<>> THEN <<Return(IntentOf(r))>>
  ELSE <<>>

\* The scores of a pattern match in a normalized text of n characters: 0.8,
\* plus 0.15 when the match is the whole text, plus 0.10 times the matched
\* share of the text, clamped to 1.
Scored(n) ==
  {FMin(Frac(1, 1),
        FAdd(FAdd(Frac(8, 10), IF m = n THEN Frac(15, 100) ELSE Frac(0, 1)), Frac(m, 10 * n))) :
     m \in 1..n}

\* C7: recognize_intent returns an intent for every text, with a confidence in
\* [0,1]: 0.0 for Unknown, 0.7 for GeneralChat, and for every other type the
\* clamped score of some match in the normalized text.
C7_ConfidenceRange ==
  \A r \in Reqs :
    (op[r] # None /\ TextOf(r) # None) =>
      /\ RecognitionOf(r) # <<>> /\ ~RecognitionOf(r)[1].raised
      /\ LET i == RecognitionOf(r)[1].value
             n == Len(Strip(Lower(TextOf(r))))
         IN  /\ FLe(Frac(0, 1), i.confidence) /\ FLe(i.confidence, Frac(1, 1))
             /\ i.type = UNKNOWN => i.confidence = Frac(0, 1)
             /\ i.type = GENERAL_CHAT => i.confidence = Frac(7, 10)
             /\ i.type \notin {UNKNOWN, GENERAL_CHAT} => n > 0 /\ i.confidence \in Scored(n)

\* C7 witness: a pattern matched a whole text, whose unclamped score is 1.05,
\* and the intent was returned with confidence 1.
C7_Witness ==
  \E r \in Reqs :
    /\ op[r] = "recognize_intent"
    /\ TextOf(r) = "schedule a meeting"
    /\ ~result[r][1].raised
    /\ result[r][1].value.type = CALENDAR
    /\ result[r][1].value.confidence = Frac(1, 1)

\* C8: no call changes the pattern catalog, the entity extractor table, the
\* handler registry or the threshold; whatever calls came before, two calls on
\* the same text recognize the same type, confidence, action and entities, two
\* process_request calls on the same text and context invoke the handler alike
\* and, the handler answering alike, return the same response.
C8_Deterministic ==
  /\ intent_recognizer = IntentRecognizer
  /\ assistant_service = AssistantService
  /\ \A r1, r2 \in Reqs :
       (op[r1] # None /\ op[r2] # None /\ TextOf(r1) = TextOf(r2)) =>
         /\ (RecognitionOf(r1) # <<>> /\ RecognitionOf(r2) # <<>>) =>
              RecognitionOf(r1) = RecognitionOf(r2)
         /\ (/\ op[r1] = "process_request" /\ op[r2] = "process_request"
             /\ request[r1][1].context = request[r2][1].context) =>
              /\ frame[r1].intent = frame[r2].intent
              /\ frame[r1].calls = frame[r2].calls
              /\ handler_outcome[r1] = handler_outcome[r2] => frame[r1] = frame[r2]

\* C8 witness: two process_request calls on the same text and context were
\* answered alike by the handler and have returned the same response.
C8_Witness ==
  \E r1, r2 \in Reqs :
    /\ r1 # r2
    /\ op[r1] = "process_request" /\ op[r2] = "process_request"
    /\ request[r1] = request[r2]
    /\ handler_outcome[r1] # <<>> /\ handler_outcome[r1] = handler_outcome[r2]
    /\ frame[r1].pc = "done" /\ frame[r2].pc = "done"
    /\ frame[r1].returned = frame[r2].returned

\* C9: "What's the weather like?" is recognized as Weather with action current
\* and confidence at least 0.6; (Weather, current) requires no entity, and
\* process_request goes on to invoke the handler without a follow-up of its own.
C9_WeatherExample ==
  \A r \in Reqs :
    (op[r] # None /\ TextOf(r) = "What's the weather like?") =>
      /\ RecognitionOf(r) # <<>> /\ ~RecognitionOf(r)[1].raised
      /\ LET i == RecognitionOf(r)[1].value
         IN  /\ i.type = WEATHER
             /\ i.action = "current"
             /\ FLe(Frac(6, 10), i.confidence)
      /\ get_required_entities(WEATHER, "current") = <<>>
      /\ op[r] = "process_request" =>
           /\ Entered(r, "handler_execution")
           /\ Len(frame[r].calls) = 1

\* C10: "Remind me to call mom" is recognized as Reminder with action create
\* and without a datetime or topic entity; the missing kinds are datetime, then
\* topic; process_request returns requiresFollowup=true with one question that
\* asks for both, in that order, and does not invoke the reminder handler.
C10_RemindExample ==
  \A r \in Reqs :
    (op[r] # None /\ TextOf(r) = "Remind me to call mom") =>
      /\ RecognitionOf(r) # <<>> /\ ~RecognitionOf(r)[1].raised
      /\ LET i == RecognitionOf(r)[1].value
         IN  /\ i.type = REMINDER
             /\ i.action = "create"
             /\ ~HasEntity(i, "datetime") /\ ~HasEntity(i, "topic")
             /\ _check_missing_entities(i.entities, get_required_entities(i.type, i.action))
                  = <<"datetime", "topic">>
      /\ op[r] = "process_request" =>
           /\ frame[r].pc = "done"
           /\ frame[r].calls = <<>>
           /\ ~Entered(r, "handler_execution")
           /\ ResponseOf(r).success
           /\ ResponseOf(r).requires_followup
           /\ ResponseOf(r).followup_question =
                "I need to know: When would you like to be reminded? (e.g., 'tomorrow at 3pm', 'in 2 hours'), What would you like me to remind you about?"

\* C10 witness: process_request has answered "Remind me to call mom" with a
\* follow-up.
C10_Witness ==
  \E r \in ProcessCalls :
    /\ TextOf(r) = "Remind me to call mom"
    /\ frame[r].pc = "done"
    /\ IntentOf(r).type = REMINDER
    /\ ResponseOf(r).requires_followup
    /\ frame[r].calls = <<>>

\* The catalog patterns that match a normalized text, in the order
\* recognize_intent examines them, each with the length of its match.
MatchesOf(text_lower) ==
  LET cands == Candidates(IntentRecognizer.patterns)
      tried == [n \in DOMAIN cands |->
                  LET m == Search(cands[n].compiled, text_lower)
                  IN  [n |-> n, intent_type |-> cands[n].intent_type,
                       actions |-> cands[n].actions, found |-> m.found,
                       length |-> m.end - m.start]]
  IN  SelectSeq(tried, LAMBDA m : m.found)

\* MatchesOf, tabulated once per text.
PatternMatches ==
  [t \in AllTexts \ {None} |-> MatchesOf(Strip(Lower(t)))] @@ [t \in {} |-> t]

\* The calls in which recognize_intent returned an intent.
Recognitions ==
  {r \in Reqs : /\ op[r] \in {"process_request", "recognize_intent"}
                /\ RecognitionOf(r) # <<>> /\ ~RecognitionOf(r)[1].raised}

RecognizedIntent(r) == RecognitionOf(r)[1].value

\* C11: when a catalog pattern matches the text the type is a domain type,
\* whatever greeting the text contains; when none matches, the type is
\* GeneralChat with confidence 0.7 and no action if the lower-cased text
\* contains a chat fragment, and Unknown with confidence 0.0 and no action
\* otherwise. "hello, thanks!" is GeneralChat at 0.7 and is not an assistant
\* task.
C11_ChatFallback ==
  \A r \in Recognitions :
    LET i    == RecognizedIntent(r)
        chat == ContainsAny(Lower(TextOf(r)), chat_indicators)
    IN  /\ IF PatternMatches[TextOf(r)] # <<>>
           THEN i.type \notin {GENERAL_CHAT, UNKNOWN}
           ELSE IF chat
           THEN i.type = GENERAL_CHAT /\ i.confidence = Frac(7, 10) /\ i.action = None
           ELSE i.type = UNKNOWN /\ i.confidence = Frac(0, 1) /\ i.action = None
        /\ TextOf(r) = "hello, thanks!" =>
             /\ i.type = GENERAL_CHAT /\ i.confidence = Frac(7, 10)
             /\ op[r] = "process_request" =>
                  frame[r].pc = "done" /\ ~ResponseOf(r).is_assistant_task

\* C11 witness: a text that greets and also matches a Calendar pattern was
\* recognized as Calendar.
C11_Witness ==
  \E r \in Recognitions :
    /\ TextOf(r) = "hello schedule a meeting"
    /\ ContainsAny(Lower(TextOf(r)), chat_indicators)
    /\ PatternMatches[TextOf(r)] # <<>>
    /\ RecognizedIntent(r).type = CALENDAR

\* The (type, action) pairs the requirement table has an entry for.
RequirementRows ==
  ({CALENDAR} \X {"create", "read", "update", "delete", "list"})
    \cup ({EMAIL} \X {"send", "read", "reply", "forward", "delete"})
    \cup ({REMINDER} \X {"create", "read", "update", "delete", "list"})
    \cup ({WEATHER} \X {"current", "forecast", "conditions"})
    \cup ({NEWS} \X {"headlines", "search", "category"})
    \cup ({SEARCH} \X {"web_search", "information", "lookup"})

\* C12: get_required_entities returns the empty list, and does not raise, for
\* every (type, action) the requirement table has no entry for; an assistant
\* task with a registered handler and such a pair is passed to the handler
\* without a follow-up.
C12_PermissiveDefault ==
  /\ \A r \in Reqs :
       op[r] = "get_required_entities" =>
         /\ ~result[r][1].raised
         /\ <<request[r][1].intent_type, request[r][1].action>> \notin RequirementRows =>
              result[r][1].value = <<>>
  /\ \A r \in AssistantTasks :
       (/\ IntentOf(r).type \in DOMAIN assistant_service.handlers
        /\ <<IntentOf(r).type, IntentOf(r).action>> \notin RequirementRows) =>
         /\ Entered(r, "handler_execution")
         /\ Len(frame[r].calls) = 1
         /\ frame[r].pc = "done" => handler_outcome[r] # <<>>

\* C12 witness: a Weather intent whose action is the keyword fallback read,
\* which Weather's row does not list, was passed to the weather handler.
C12_Witness ==
  \E r \in AssistantTasks :
    /\ IntentOf(r).type = WEATHER
    /\ IntentOf(r).action = "read"
    /\ <<WEATHER, "read">> \notin RequirementRows
    /\ Len(frame[r].calls) = 1
    /\ frame[r].calls[1].handler = weather_handler

\* What a process_request call on a request has done once its handler, if it
\* invoked one, has answered with the outcome (<<>> while it has not), were
\* the call the only one ever made.
AloneFrame(req, outcome) ==
  LET f == process_request(AssistantService, IntentRecognizer, req)
  IN  IF f.pc # "awaiting" \/ outcome = <<>> THEN f
      ELSE IF outcome[1].raised
      THEN FailureContainment(outcome[1].exc, f.intent, f.steps, f.calls)
      ELSE Frame("done", f.intent, f.steps, f.calls,
                 <<HandlerPassThrough(f.intent[1], outcome[1].value)>>)

\* The state of call r: what it was called with and how far it has come.
CallState(r) == <<op[r], request[r], frame[r], handler_outcome[r], result[r]>>

\* C13: in every interleaving of process_request calls, a step belongs to one
\* call and leaves the shared tables and every other call as they are; a call
\* is suspended only at the handler invocation; and what a call has recognized,
\* invoked and returned is what it would have alone, on its own text and
\* context and with its own handler result.
C13_Independent ==
  [][ /\ UNCHANGED Tables
      /\ \E r \in Reqs : \A s \in Reqs \ {r} : CallState(s)' = CallState(s)
      /\ \A r \in Reqs :
           op'[r] = "process_request" =>
             /\ frame'[r] = AloneFrame(request'[r][1], handler_outcome'[r])
             /\ frame'[r].pc = "awaiting" =>
                  frame'[r].steps[Len(frame'[r].steps)] = "handler_execution" ]_vars

\* C13 witness: two calls on different texts are suspended at their handler
\* invocations at once.
C13_Witness ==
  \E r1, r2 \in ProcessCalls :
    /\ frame[r1].pc = "awaiting" /\ frame[r2].pc = "awaiting"
    /\ IntentOf(r1).type # IntentOf(r2).type
    /\ frame[r1].calls[1].handler # frame[r2].calls[1].handler

\* The score of a match of the given length in a normalized text of n
\* characters.
ScoreOf(length, n) ==
  FMin(Frac(1, 1),
       FAdd(FAdd(Frac(8, 10), IF length = n THEN Frac(15, 100) ELSE Frac(0, 1)),
            Frac(length, 10 * n)))

\* The scores of the patterns matching the text of call r, in examination order.
ScoresOf(r) ==
  LET ms == PatternMatches[TextOf(r)]
  IN  [k \in DOMAIN ms |-> ScoreOf(ms[k].length, Len(Strip(Lower(TextOf(r)))))]

\* The first of the matching patterns of call r that attains the highest score.
Winner(r) ==
  LET scores == ScoresOf(r)
  IN  CHOOSE k \in DOMAIN scores :
        /\ \A j \in DOMAIN scores : FLe(scores[j], scores[k])
        /\ \A j \in 1..(k - 1) : FLt(scores[j], scores[k])

\* C14: the catalog is scanned in the order Calendar, Email, Reminder, Weather,
\* News, Search; when some pattern matches, the returned confidence is the
\* highest score of a matching pattern, and the type and the action are those
\* of the first matching pattern, in scan order, with that score.
C14_BestFirst ==
  /\ [i \in DOMAIN intent_recognizer.patterns |-> intent_recognizer.patterns[i].intent_type]
       = <<CALENDAR, EMAIL, REMINDER, WEATHER, NEWS, SEARCH>>
  /\ \A r \in Recognitions :
       PatternMatches[TextOf(r)] # <<>> =>
         LET w == PatternMatches[TextOf(r)][Winner(r)]
         IN  /\ RecognizedIntent(r).confidence = ScoresOf(r)[Winner(r)]
             /\ RecognizedIntent(r).type = w.intent_type
             /\ RecognizedIntent(r).action =
                  _extract_action(Strip(Lower(TextOf(r))), w.actions)

\* C14 witness: an Email pattern and a later Reminder pattern match with the
\* same, highest score, and the intent returned is Email.
C14_Witness ==
  \E r \in Recognitions :
    /\ TextOf(r) = "show my tasks show my inbox"
    /\ \E j, k \in DOMAIN ScoresOf(r) :
         /\ j = Winner(r) /\ j < k
         /\ ScoresOf(r)[j] = ScoresOf(r)[k]
         /\ PatternMatches[TextOf(r)][j].intent_type = EMAIL
         /\ PatternMatches[TextOf(r)][k].intent_type = REMINDER
    /\ RecognizedIntent(r).type = EMAIL

\* C15: on an empty or whitespace-only text no catalog pattern matches and
\* recognize_intent returns, without raising, Unknown with confidence 0.0, no
\* action and no entities; process_request answers it with the
\* general-conversation response, not with the error response.
C15_BlankInput ==
  \A r \in Reqs :
    (/\ op[r] \in {"process_request", "recognize_intent"}
     /\ TextOf(r) # None /\ Strip(TextOf(r)) = "") =>
      /\ PatternMatches[TextOf(r)] = <<>>
      /\ r \in Recognitions
      /\ RecognizedIntent(r).type = UNKNOWN
      /\ RecognizedIntent(r).confidence = Frac(0, 1)
      /\ RecognizedIntent(r).action = None
      /\ RecognizedIntent(r).entities = <<>>
      /\ op[r] = "process_request" =>
           /\ frame[r].pc = "done"
           /\ ~Entered(r, "failure_containment")
           /\ frame[r].calls = <<>>
           /\ ResponseOf(r).success
           /\ ResponseOf(r).intent_type = UNKNOWN
           /\ ResponseOf(r).error = None
           /\ ~ResponseOf(r).is_assistant_task

\* C15 witness: process_request has answered a text of a blank, a tab and a
\* newline as general conversation.
C15_Witness ==
  \E r \in ProcessCalls :
    /\ TextOf(r) = " \t\n"
    /\ frame[r].pc = "done"
    /\ ResponseOf(r).intent_type = UNKNOWN
    /\ ~ResponseOf(r).is_assistant_task

\* The keyword families of the action fallback, in the order they are tried.
KeywordFamilies ==
  << [action |-> "create", keywords |-> CreateWords],
     [action |-> "read",   keywords |-> ReadWords],
     [action |-> "update", keywords |-> UpdateWords],
     [action |-> "delete", keywords |-> DeleteWords] >>

\* C16: the action of a pattern-matched intent is the first identifier of the
\* winning rule's valid actions that occurs in the lower-cased text; failing
\* that, create, read, update or delete by the first keyword family, in that
\* order, with a keyword occurring in the text; failing that, the first valid
\* action. It is never null and lies in the valid actions or in {create, read,
\* update, delete}.
C16_ActionResolution ==
  \A r \in Recognitions :
    PatternMatches[TextOf(r)] # <<>> =>
      LET text     == Strip(Lower(TextOf(r)))
          valid    == PatternMatches[TextOf(r)][Winner(r)].actions
          named    == SelectSeq(valid, LAMBDA a : Contains(text, a))
          families == SelectSeq(KeywordFamilies, LAMBDA f : ContainsAny(text, f.keywords))
          action   == RecognizedIntent(r).action
      IN  /\ action = (IF named # <<>> THEN named[1]
                       ELSE IF families # <<>> THEN families[1].action
                       ELSE valid[1])
          /\ action # None
          /\ action \in {valid[n] : n \in DOMAIN valid} \cup {"create", "read", "update", "delete"}

\* C16 witness: a Weather intent on a text that names none of current, forecast
\* and conditions and has a create keyword and a read keyword got the action
\* create, which is none of Weather's actions.
C16_Witness ==
  \E r \in Recognitions :
    /\ PatternMatches[TextOf(r)] # <<>>
    /\ RecognizedIntent(r).type = WEATHER
    /\ ContainsAny(Strip(Lower(TextOf(r))), CreateWords)
    /\ ContainsAny(Strip(Lower(TextOf(r))), ReadWords)
    /\ RecognizedIntent(r).action = "create"

\* The question templates, by intent type and entity kind.
Templates ==
  [weather  |-> [location |-> "Which city or location would you like the weather for?",
                 datetime |-> "For what date would you like the weather forecast?"],
   reminder |-> [topic    |-> "What would you like me to remind you about?",
                 datetime |-> "When would you like to be reminded? (e.g., 'tomorrow at 3pm', 'in 2 hours')"],
   search   |-> [topic    |-> "What would you like me to search for?"],
   calendar |-> [datetime |-> "When would you like to schedule this? (e.g., 'tomorrow at 2pm', 'next Monday')",
                 topic    |-> "What is this meeting or event about?"],
   email    |-> [person   |-> "Who would you like to send this email to?",
                 topic    |-> "What is the subject or content of the email?"]]

HasTemplate(intent_type, kind) ==
  intent_type \in DOMAIN Templates /\ kind \in DOMAIN Templates[intent_type]

\* The generic sentence naming a kind.
Generic(kind) == "I need more information about the " \o kind \o "."

\* The direct calls of _generate_followup_question.
FollowupCalls == {r \in Reqs : op[r] = "_generate_followup_question"}

C18_ThresholdNeverRejects ==
  \A r \in Recognitions :
    LET i == RecognizedIntent(r)
        n == Len(Strip(Lower(TextOf(r))))
    IN  /\ PatternMatches[TextOf(r)] # <<>> =>
             /\ FLe(Frac(8, 10), i.confidence) /\ FLe(i.confidence, Frac(1, 1))
             /\ IF PatternMatches[TextOf(r)][Winner(r)].length = n
                THEN i.confidence = Frac(1, 1)
                ELSE FLt(i.confidence, Frac(9, 10))
        /\ (i.confidence = Frac(0, 1)) <=> (i.type = UNKNOWN)
        /\ (i.confidence = Frac(7, 10)) <=> (i.type = GENERAL_CHAT)
        /\ (i.type \notin {UNKNOWN, GENERAL_CHAT}) <=> (PatternMatches[TextOf(r)] # <<>>)
        /\ op[r] = "process_request" =>
             /\ Entered(r, "handler_resolution") <=> (i.type \notin {UNKNOWN, GENERAL_CHAT})
             /\ frame[r].pc = "done" =>
                  (ResponseOf(r).is_assistant_task <=> (i.type \notin {UNKNOWN, GENERAL_CHAT}))

\* C18 witness: a Reminder intent whose pattern matched a part of the text only,
\* with a confidence between 0.8 and 0.9, went on to handler resolution.
C18_Witness ==
  \E r \in ProcessCalls :
    /\ r \in Recognitions
    /\ IntentOf(r).type = REMINDER
    /\ PatternMatches[TextOf(r)][Winner(r)].length < Len(Strip(Lower(TextOf(r))))
    /\ FLt(IntentOf(r).confidence, Frac(9, 10))
    /\ Entered(r, "handler_resolution")

====
